---- MODULE Spec2Model ----
(***************************************************************************)
(* Clipboard watcher (tools/todo_it_clipboard.py): the configuration       *)
(* loader, the line classifier, the OAuth credential manager, the delivery *)
(* client and the watch loop.                                              *)
(*                                                                         *)
(* Python strings are modelled as sequences of one-character strings, so   *)
(* that strip(), lower(), splitlines() and the prefix regular expression   *)
(* are computed, not assumed.  An optional value (None | x) is the empty   *)
(* tuple Nothing or the one-element tuple Some(x).                         *)
(***************************************************************************)
EXTENDS Integers, Sequences, FiniteSets, TLC

VARIABLES
    pc,             \* position of main(): "start", "loop", "exit1", "crashed";
                    \* "classify", "classified" in the classifier harness
    config,         \* Some(dict returned by load_config) or Nothing
    last_clipboard, \* main's last_clipboard: Nothing (None) or Some(text)
    current,        \* main's current: Nothing (not read / read failed) or Some(text)
    parsed,         \* result of parse_clipboard_text in this iteration
    payload,        \* Some(payload dict built in this iteration) or Nothing
    ok,             \* Some(return value of post_payload) or Nothing (not called)
    token_file,     \* the token cache file: Missing, Corrupt or a stored credential
    secrets_exist,  \* whether the client-secrets file exists
    request,        \* Some(request handed to urlopen in this iteration) or Nothing
    response,       \* Some(what the endpoint answered in this iteration) or Nothing
    events,         \* what this iteration did, in order (log lines included)
    \* history, read by no operation:
    seen,             \* the content of the latest successful clipboard read
    times_classified, \* classifications since the content read last changed
    times_posted,     \* post_payload calls since the content read last changed
    attempt_outcome,  \* how the latest post_payload call for that content ended
    unchanged_read,   \* this iteration read the content last_clipboard held
    first_read,       \* this iteration made the first successful read of the run
    file_before       \* the token cache file when this iteration began

vars == << pc, config, last_clipboard, current, parsed, payload, ok,
           token_file, secrets_exist, request, response, events,
           seen, times_classified, times_posted, attempt_outcome,
           unchanged_read, first_read, file_before >>

Nothing == << >>
Some(x) == << x >>

-----------------------------------------------------------------------------
(* Bounds of the model *)

\* longest raw text given to the classifier harness
MaxLen == 4
\* number of distinct access tokens the identity provider can issue
MaxTokens == 1

-----------------------------------------------------------------------------
(* Characters and the str methods the program uses *)

UpperLetters == << "A","B","C","D","E","F","G","H","I","J","K","L","M",
                   "N","O","P","Q","R","S","T","U","V","W","X","Y","Z" >>
LowerLetters == << "a","b","c","d","e","f","g","h","i","j","k","l","m",
                   "n","o","p","q","r","s","t","u","v","w","x","y","z" >>
DigitChars == << "0","1","2","3","4","5","6","7","8","9" >>

Range(s) == { s[i] : i \in DOMAIN s }

\* [A-Za-z0-9]
AlnumChars == Range(UpperLetters) \cup Range(LowerLetters) \cup Range(DigitChars)

\* the whitespace characters of the model's alphabet (str.strip, str.splitlines)
Whitespace == { " ", "\n" }
LineBreak == "\n"

LowerChar(c) ==
    IF \E i \in DOMAIN UpperLetters : UpperLetters[i] = c
    THEN LowerLetters[CHOOSE i \in DOMAIN UpperLetters : UpperLetters[i] = c]
    ELSE c

\* str.lower()
lower(s) == [ i \in 1..Len(s) |-> LowerChar(s[i]) ]

RECURSIVE lstrip(_)
lstrip(s) ==
    IF s = << >> THEN s
    ELSE IF Head(s) \in Whitespace THEN lstrip(Tail(s)) ELSE s

RECURSIVE rstrip(_)
rstrip(s) ==
    IF s = << >> THEN s
    ELSE IF s[Len(s)] \in Whitespace THEN rstrip(SubSeq(s, 1, Len(s) - 1)) ELSE s

\* str.strip()
strip(s) == rstrip(lstrip(s))

\* index of the first occurrence of character c in s, 0 when there is none
IndexOf(s, c) ==
    IF \E i \in 1..Len(s) : s[i] = c
    THEN CHOOSE i \in 1..Len(s) : s[i] = c /\ \A j \in 1..(i - 1) : s[j] # c
    ELSE 0

\* str.splitlines(): no empty last line after a trailing line break
RECURSIVE splitlines(_)
splitlines(s) ==
    IF s = << >> THEN << >>
    ELSE LET i == IndexOf(s, LineBreak)
         IN  IF i = 0 THEN << s >>
             ELSE << SubSeq(s, 1, i - 1) >> \o splitlines(SubSeq(s, i + 1, Len(s)))

\* PREFIX_RE.match(line): ^([A-Za-z0-9]+):(.*)$ .  The token holds no colon, so
\* it ends at the first colon of the line; "." does not match a line break.
\* Nothing when there is no match, else Some of the two groups.
PREFIX_RE_match(line) ==
    LET i == IndexOf(line, ":")
    IN  IF /\ i > 1
           /\ \A j \in 1..(i - 1) : line[j] \in AlnumChars
           /\ \A j \in (i + 1)..Len(line) : line[j] # LineBreak
        THEN Some([ group1 |-> SubSeq(line, 1, i - 1),
                    group2 |-> SubSeq(line, i + 1, Len(line)) ])
        ELSE Nothing

-----------------------------------------------------------------------------
(* String literals of the program *)

S_todo == << "t","o","d","o" >>
S_fu == << "f","u" >>
S_misc == << "m","i","s","c" >>
S_TODO == << "T","O","D","O" >>
S_FollowUp == << "F","o","l","l","o","w"," ","U","p" >>
S_Miscellany == << "M","i","s","c","e","l","l","a","n","y" >>
S_LB == << "L","B" >>
S_map_to_misc == << "m","a","p","_","t","o","_","m","i","s","c" >>
S_ignore == << "i","g","n","o","r","e" >>
S_none == << "n","o","n","e" >>
S_oauth_user == << "o","a","u","t","h","_","u","s","e","r" >>
S_OK == << "O","K" >>
S_http == << "h","t","t","p" >>

\* a dict with string keys: a function whose domain is the set of keys
DictSet(d, k, v) == [ x \in (DOMAIN d) \cup {k} |-> IF x = k THEN v ELSE d[x] ]
DictGet(d, k, default) == IF k \in DOMAIN d THEN d[k] ELSE default

DEFAULT_TAG_MAP ==
    [ k \in { S_todo, S_fu, S_misc } |->
        IF k = S_todo THEN S_TODO ELSE IF k = S_fu THEN S_FollowUp ELSE S_Miscellany ]

-----------------------------------------------------------------------------
(* parse_clipboard_text *)

\* the first line whose stripped form is non-empty, stripped; "" when none
RECURSIVE FirstNonEmptyLine(_)
FirstNonEmptyLine(lines) ==
    IF lines = << >> THEN << >>
    ELSE IF strip(Head(lines)) # << >> THEN strip(Head(lines))
         ELSE FirstNonEmptyLine(Tail(lines))

\* faults for the sensitivity runs: the policy is not consulted (C10); the
\* fallback tag is never substituted (C9)
UnknownPrefixIgnoresPolicy(unknown_behavior) == Some(S_misc)
UnknownPrefixDropped(unknown_behavior) == Nothing

\* the tag an absent prefix is replaced by, Nothing when the line is dropped
UnknownPrefix(unknown_behavior) ==
    IF unknown_behavior = S_map_to_misc THEN Some(S_misc) ELSE Nothing

\* the prefix after the tag-map lookup
ResolvePrefix(prefix, unknown_behavior, tag_map) ==
    IF prefix \notin DOMAIN tag_map
    THEN UnknownPrefix(unknown_behavior)
    ELSE Some(prefix)

\* fault for the sensitivity run of C8: "if not section" is missing
EntryForWithoutSectionCheck(prefix, text, tag_map) ==
    Some([ type |-> prefix, section |-> strip(DictGet(tag_map, prefix, << >>)),
           text |-> text ])

\* the entry returned for a resolved prefix: None when its section is blank
EntryFor(prefix, text, tag_map) ==
    LET section == strip(DictGet(tag_map, prefix, << >>))
    IN  IF section = << >> THEN Nothing
        ELSE Some([ type |-> prefix, section |-> section, text |-> text ])

parse_clipboard_text(raw_text, unknown_behavior, tag_map) ==
    LET line == FirstNonEmptyLine(splitlines(raw_text))
    IN  IF line = << >> THEN Nothing
        ELSE LET match == PREFIX_RE_match(line)
             IN  IF match = Nothing THEN Nothing
                 ELSE LET prefix_raw == match[1].group1
                          text == strip(match[1].group2)
                      IN  IF text = << >> THEN Nothing
                          ELSE LET prefix == ResolvePrefix(lower(prefix_raw),
                                                           unknown_behavior, tag_map)
                               IN  IF prefix = Nothing THEN Nothing
                                   ELSE EntryFor(prefix[1], text, tag_map)

-----------------------------------------------------------------------------
(* load_config *)

\* poll_interval when the configuration file gives none: 0.5 s, in tenths of
\* a second (every duration of the model is in tenths of a second)
DefaultPollInterval == 5

\* a JSON value given for poll_interval: a number, or a string
JsonNum(n) == [ kind |-> "num", num |-> n, str |-> << >> ]
JsonStr(s) == [ kind |-> "str", num |-> 0, str |-> s ]

DigitValue(c) == (CHOOSE i \in DOMAIN DigitChars : DigitChars[i] = c) - 1

\* float(v): a number is taken as it is, a string of one decimal digit is
\* parsed (in seconds), any other string of the model's alphabet raises
\* ValueError.  Nothing when it raises.
float(v) ==
    IF v.kind = "num" THEN Some(v.num)
    ELSE IF Len(v.str) = 1 /\ v.str[1] \in Range(DigitChars)
         THEN Some(10 * DigitValue(v.str[1]))
         ELSE Nothing

\* the loop over tag_map_cfg.items(): pairs is the JSON object, in file order
RECURSIVE MergeTagMap(_, _)
MergeTagMap(tag_map, pairs) ==
    IF pairs = << >> THEN tag_map
    ELSE LET key_norm == lower(strip(Head(pairs)[1]))
             value == Head(pairs)[2]
         IN  MergeTagMap(IF key_norm # << >> THEN DictSet(tag_map, key_norm, value)
                                             ELSE tag_map,
                         Tail(pairs))

\* cfg.get(name, default) of an optional field
OrDefault(field, default) == IF field = Nothing THEN default ELSE field[1]

\* the interval load_config stores
PollIntervalOf(cfg) ==
    float(OrDefault(cfg.poll_interval, JsonNum(DefaultPollInterval)))

\* load_config(config_path): Nothing when it raises, else Some(settings).
\* cfg.exists is config_path.exists(); the other fields are the JSON object's.
\* (google_doc_url and the oauth paths and scopes are left out: they take no
\* part in the loop's decisions.)
load_config(cfg) ==
    LET web_app_url == strip(OrDefault(cfg.web_app_url, << >>))
        who_given == strip(OrDefault(cfg.who, S_LB))
        who == IF who_given # << >> THEN who_given ELSE S_LB
        poll_interval == PollIntervalOf(cfg)
        unknown_behavior ==
            lower(strip(OrDefault(cfg.unknown_prefix_behavior, S_map_to_misc)))
        auth_mode == lower(strip(OrDefault(cfg.auth_mode, S_none)))
    IN  IF ~cfg.exists THEN Nothing
        ELSE IF web_app_url = << >> THEN Nothing
        ELSE IF poll_interval = Nothing THEN Nothing
        ELSE IF unknown_behavior \notin { S_map_to_misc, S_ignore } THEN Nothing
        ELSE IF auth_mode \notin { S_none, S_oauth_user } THEN Nothing
        ELSE Some([ web_app_url |-> web_app_url,
                    who |-> who,
                    poll_interval |-> poll_interval[1],
                    unknown_prefix_behavior |-> unknown_behavior,
                    auth_mode |-> auth_mode,
                    tag_map |-> MergeTagMap(DEFAULT_TAG_MAP, cfg.tag_map) ])

\* The configuration files of the model: the base file (every default, with
\* OAuth turned on) and the values each field may take instead.
BaseCfg ==
    [ exists |-> TRUE,
      web_app_url |-> Some(S_http \o << ":", "/", "/", "x" >>),
      who |-> Nothing,
      poll_interval |-> Nothing,
      unknown_prefix_behavior |-> Nothing,
      auth_mode |-> Some(S_oauth_user),
      tag_map |-> << >> ]

UrlChoices ==
    { BaseCfg.web_app_url, Nothing, Some(<< " " >>), Some(<< "x" >>),
      Some(<< "h", ":", "x" >>),
      Some(<< " " >> \o S_http \o << ":", "/", "/", "x", " " >>) }
WhoChoices == { Nothing, Some(<< " " >>), Some(<< " ", "m", "e" >>) }
PollChoices ==
    { Nothing, Some(JsonNum(-1)), Some(JsonNum(0)), Some(JsonStr(<< "x" >>)) }
UnknownChoices ==
    { Nothing, Some(S_ignore), Some(<< " ", "I", "G", "N", "O", "R", "E" >>),
      Some(<< "x" >>) }
AuthChoices ==
    { Nothing, Some(S_oauth_user), Some(S_none),
      Some(<< "O", "A", "u", "t", "h", "_", "U", "s", "e", "r", " " >>),
      Some(<< "x" >>) }
TagMapChoices ==
    { << >>,
      << << S_misc, << " " >> >> >>,
      << << S_fu, << >> >> >>,
      << << << " " >>, << "X" >> >>,
         << << " ", "F", " " >>, << "E", "f", "f" >> >>,
         << S_misc, << " ", "M", " " >> >> >> }

AllConfigFiles ==
    [ exists : BOOLEAN, web_app_url : UrlChoices, who : WhoChoices,
      poll_interval : PollChoices, unknown_prefix_behavior : UnknownChoices,
      auth_mode : AuthChoices, tag_map : TagMapChoices ]

\* the configuration files main() may find: the base file, and every file
\* that differs from it in one field
ConfigFiles ==
    { cfg \in AllConfigFiles :
        \A f, g \in DOMAIN BaseCfg :
            (cfg[f] # BaseCfg[f] /\ cfg[g] # BaseCfg[g]) => f = g }

\* every file that differs from the base file only in what the classifier
\* reads: the unknown-prefix behaviour and the tag map
ClassifierConfigFiles ==
    { cfg \in AllConfigFiles :
        \A f \in DOMAIN BaseCfg :
            f \notin { "unknown_prefix_behavior", "tag_map" } => cfg[f] = BaseCfg[f] }

-----------------------------------------------------------------------------
(* get_oauth_access_token *)

\* the access tokens the identity provider issues
Token(i) == << "t", DigitChars[i + 1] >>
Tokens == { Token(i) : i \in 1..MaxTokens }

\* a Credentials object: token is None, "" or an issued token; expired is
\* creds.expired; refresh_token is whether creds.refresh_token is set
CredentialsSet ==
    [ token : { Nothing, Some(<< >>) } \cup { Some(t) : t \in Tokens },
      expired : BOOLEAN, refresh_token : BOOLEAN ]

NoCreds == [ token |-> Nothing, expired |-> FALSE, refresh_token |-> FALSE ]

\* the token cache file
Missing == [ state |-> "missing", creds |-> NoCreds ]
Corrupt == [ state |-> "corrupt", creds |-> NoCreds ]
Stored(creds) == [ state |-> "stored", creds |-> creds ]
TokenFiles == { Missing, Corrupt } \cup { Stored(c) : c \in CredentialsSet }

\* creds.valid of google.oauth2.credentials: a token that has not expired
CredsValid(creds) == creds.token # Nothing /\ ~creds.expired

\* fault for the sensitivity run of C5: the cached credentials are never
\* taken as they are
NeedsRenewalAlways(creds) == TRUE

\* "if not creds or not creds.valid": creds is None or Some(credentials)
NeedsRenewal(creds) == creds = Nothing \/ ~CredsValid(creds[1])

\* "if creds and creds.expired and creds.refresh_token"
CanRefresh(creds) ==
    creds # Nothing /\ creds[1].expired /\ creds[1].refresh_token

\* fault for the sensitivity run of C4: the token itself is not looked at
TokenUsableUnchecked(creds) == creds # Nothing

\* "if not creds or not creds.token" is false: the token may be returned
TokenUsable(creds) ==
    creds # Nothing /\ creds[1].token # Nothing /\ creds[1].token[1] # << >>

\* lines 155-157: the credentials read from the cache file; reading a file
\* that is not an authorized-user file raises
LoadCache(file) ==
    IF file.state = "missing" THEN [ raised |-> FALSE, creds |-> Nothing ]
    ELSE IF file.state = "corrupt" THEN [ raised |-> TRUE, creds |-> Nothing ]
    ELSE [ raised |-> FALSE, creds |-> Some(file.creds) ]

\* fault for the sensitivity run of C7: the existence check is missing
SecretsCheckSkipped(exist) == TRUE

\* "if not client_secrets_path.exists(): raise FileNotFoundError"
SecretsPresent(exist) == exist

\* lines 160-171: what renewing the credentials can come to.  A refresh
\* keeps the refresh token; the interactive flow may or may not yield one.
Renewals(creds, exist) ==
    IF CanRefresh(creds)
    THEN { [ raised |-> FALSE, events |-> << "refresh" >>,
             creds |-> Some([ token |-> Some(t), expired |-> FALSE,
                              refresh_token |-> TRUE ]) ] : t \in Tokens }
         \cup { [ raised |-> TRUE, events |-> << "refresh", "refresh_failed" >>,
                  creds |-> creds ] }
    ELSE IF ~SecretsPresent(exist)
    THEN { [ raised |-> TRUE, events |-> << "secrets_file_not_found" >>,
             creds |-> creds ] }
    ELSE { [ raised |-> FALSE, events |-> << "log_login", "interactive" >>,
             creds |-> Some([ token |-> Some(t), expired |-> FALSE,
                              refresh_token |-> r ]) ] :
             t \in Tokens, r \in BOOLEAN }
         \cup { [ raised |-> TRUE, events |-> << "secrets_file_invalid" >>,
                  creds |-> creds ],
                [ raised |-> TRUE,
                  events |-> << "log_login", "interactive", "interactive_failed" >>,
                  creds |-> creds ] }

\* fault for the sensitivity run of C16: a failed write is not noticed
WritesUnchecked(creds, file) ==
    { [ raised |-> FALSE, events |-> << "cache_write" >>, file |-> Stored(creds[1]) ],
      [ raised |-> FALSE, events |-> << "cache_write_failed" >>, file |-> file ],
      [ raised |-> FALSE, events |-> << "cache_write_failed" >>, file |-> Corrupt ] }

\* lines 173-174: mkdir and write_text; a failed write leaves the file as it
\* was (it could not be opened) or truncated
Writes(creds, file) ==
    { [ raised |-> FALSE, events |-> << "cache_write" >>, file |-> Stored(creds[1]) ],
      [ raised |-> TRUE, events |-> << "cache_write_failed" >>, file |-> file ],
      [ raised |-> TRUE, events |-> << "cache_write_failed" >>, file |-> Corrupt ] }

\* lines 176-179
ReturnToken(creds, file, evs) ==
    IF TokenUsable(creds)
    THEN [ raised |-> FALSE, token |-> creds[1].token[1], file |-> file,
           events |-> evs \o << "token_returned" >> ]
    ELSE [ raised |-> TRUE, token |-> << >>, file |-> file,
           events |-> evs \o << "no_access_token" >> ]

\* fault for the sensitivity run of C19: a failed request removes the cache
RaiseDeletingCache(file, evs) ==
    [ raised |-> TRUE, token |-> << >>, file |-> Missing, events |-> evs ]

Raise(file, evs) ==
    [ raised |-> TRUE, token |-> << >>, file |-> file, events |-> evs ]

\* get_oauth_access_token(oauth_cfg): every way a call can end, given the
\* cache file and whether the client-secrets file exists.  The google-auth
\* packages of requirements.txt are taken to be installed: the imports of
\* lines 142-149 succeed.
get_oauth_access_token(file, exist) ==
    LET loaded == LoadCache(file)
        e0 == << "token_request" >>
    IN  IF loaded.raised THEN { Raise(file, e0 \o << "cache_read", "cache_unreadable" >>) }
        ELSE LET e1 == IF file.state = "missing" THEN e0 ELSE e0 \o << "cache_read" >>
             IN  IF ~NeedsRenewal(loaded.creds)
                 THEN { ReturnToken(loaded.creds, file, e1) }
                 ELSE UNION {
                        IF r.raised THEN { Raise(file, e1 \o r.events) }
                        ELSE { IF w.raised THEN Raise(w.file, e1 \o r.events \o w.events)
                               ELSE ReturnToken(r.creds, w.file,
                                                e1 \o r.events \o w.events) :
                               w \in Writes(r.creds, file) } :
                        r \in Renewals(loaded.creds, exist) }

-----------------------------------------------------------------------------
(* post_payload *)

\* what urlopen can come to: a response object, an HTTPError, a URLError or
\* another exception (a timeout while reading, ...)
Statuses == { 199, 200, 299, 300 }
Bodies ==
    { S_OK, S_OK \o << "\n" >>, << "F", "A", "I", "L", "E", "D" >> }
NoReply == [ kind |-> "none", status |-> 0, body |-> << >> ]
Replies ==
    { [ kind |-> "response", status |-> 200, body |-> b ] : b \in Bodies }
    \cup { [ kind |-> "response", status |-> st, body |-> S_OK ] : st \in Statuses }
    \cup { [ kind |-> "httperror", status |-> st, body |-> << >> ] :
             st \in { x \in Statuses : ~(200 <= x /\ x < 300) } }
    \cup { [ NoReply EXCEPT !.kind = "urlerror" ],
           [ NoReply EXCEPT !.kind = "exception" ] }

\* urllib.request.Request(url): "unknown url type" (ValueError) unless the
\* url starts with a type, a non-empty run without "/" before a colon
UrlType(url) ==
    LET i == IndexOf(url, ":")
    IN  IF i > 1 /\ \A j \in 1..(i - 1) : url[j] # "/"
        THEN Some(SubSeq(url, 1, i - 1)) ELSE Nothing

\* the replies urlopen can give for a url: a type no handler opens gives a
\* URLError
UrlOpen(url) ==
    IF UrlType(url) = Some(S_http) THEN Replies
    ELSE { [ NoReply EXCEPT !.kind = "urlerror" ] }

\* fault for the sensitivity run of C3: the status is not looked at
AcceptedAnyStatus(status, body) == strip(body) = S_OK

\* line 204: "200 <= status < 300 and text == 'OK'", text the stripped body
Accepted(status, body) ==
    200 <= status /\ status < 300 /\ strip(body) = S_OK

\* lines 200-216: the return value and the log line for a reply
HandleReply(reply) ==
    IF reply.kind = "response"
    THEN IF Accepted(reply.status, reply.body)
         THEN [ ok |-> TRUE, events |-> << >> ]
         ELSE [ ok |-> FALSE, events |-> << "log_server_response" >> ]
    ELSE IF reply.kind = "httperror"
    THEN [ ok |-> FALSE, events |-> << "log_http_error" >> ]
    ELSE IF reply.kind = "urlerror"
    THEN [ ok |-> FALSE, events |-> << "log_network_issue" >> ]
    ELSE [ ok |-> FALSE, events |-> << "log_unexpected_failure" >> ]

\* lines 193-216, with the headers built: every way the send can end.
\* returned is FALSE when an exception leaves post_payload.
Send(web_app_url, body, authorization, file, evs) ==
    IF UrlType(web_app_url) = Nothing
    THEN { [ returned |-> FALSE, ok |-> FALSE, file |-> file, request |-> Nothing,
             response |-> Nothing, events |-> evs \o << "request_value_error" >> ] }
    ELSE { LET h == HandleReply(reply)
           IN  [ returned |-> TRUE, ok |-> h.ok, file |-> file,
                 request |-> Some([ url |-> web_app_url, body |-> body,
                                    authorization |-> authorization ]),
                 response |-> Some(reply),
                 events |-> evs \o << "send" >> \o h.events ] :
           reply \in UrlOpen(web_app_url) }

\* fault for the sensitivity run of C20: a token is requested in every mode
AuthEnabledAlways(cfg) == TRUE

\* line 185: "if config.get("auth_mode") == "oauth_user""
AuthEnabled(cfg) == cfg.auth_mode = S_oauth_user

\* lines 185-191: the token requests post_payload makes
TokenRequests(cfg, file, exist) ==
    IF AuthEnabled(cfg) THEN get_oauth_access_token(file, exist) ELSE { }

\* post_payload(web_app_url, payload, config)
post_payload(web_app_url, body, cfg, file, exist) ==
    IF AuthEnabled(cfg)
    THEN UNION {
           IF t.raised
           THEN { [ returned |-> TRUE, ok |-> FALSE, file |-> t.file,
                    request |-> Nothing, response |-> Nothing,
                    events |-> t.events \o << "log_auth_failure" >> ] }
           ELSE Send(web_app_url, body, Some(t.token), t.file, t.events) :
           t \in TokenRequests(cfg, file, exist) }
    ELSE Send(web_app_url, body, Nothing, file, << >>)

-----------------------------------------------------------------------------
(* main *)

\* fault for the sensitivity run of C17: the loop starts from the empty string
UnsetAsEmptyString == Some(<< >>)

\* line 233: "last_clipboard = None"
Unset == Nothing

\* fault for the sensitivity run of C11: the identity is not taken from the
\* configuration
BuildPayloadDefaultWho(entry, cfg) ==
    [ type |-> entry.type, section |-> entry.section, text |-> entry.text,
      who |-> S_LB ]

\* what pyperclip.paste() may return; Nothing stands for its raising
ClipboardTexts ==
    { << >>,
      << "f", "u", ":", " ", "a" >>,
      << "x", "y", ":", " ", "b" >>,
      << "\n", "F", "U", ":", "c", "\n", "x", "y", ":", "d" >> }
ReadOutcomes == { Nothing } \cup { Some(t) : t \in ClipboardTexts }

\* fault for the sensitivity run of C6: every read is processed
ProcessAlways(cur, last) == TRUE

\* "if current != last_clipboard"
ShouldProcess(cur, last) == Some(cur) # last

\* fault for the sensitivity run of C1: the assignment is lost
RememberNothing(cur, last) == last

\* "last_clipboard = current"
Remember(cur, last) == Some(cur)

\* lines 250-255
BuildPayload(entry, cfg) ==
    [ type |-> entry.type, section |-> entry.section, text |-> entry.text,
      who |-> cfg.who ]

\* an iteration that has done nothing yet
Idle(last, file) ==
    [ pc |-> "loop", last_clipboard |-> last, current |-> Nothing,
      parsed |-> Nothing, payload |-> Nothing, ok |-> Nothing,
      token_file |-> file, request |-> Nothing, response |-> Nothing,
      events |-> << >> ]

\* time.sleep(config["poll_interval"]) at the end of iteration it: a negative
\* length raises ValueError, which nothing in main catches
Sleep(cfg, it) ==
    IF cfg.poll_interval < 0
    THEN [ it EXCEPT !.pc = "crashed", !.events = @ \o << "sleep_value_error" >> ]
    ELSE [ it EXCEPT !.events = @ \o << "sleep" >> ]

\* lines 243-258: the body of "if current != last_clipboard"
Process(cur, cfg, last, file, exist) ==
    LET entry == parse_clipboard_text(cur, cfg.unknown_prefix_behavior, cfg.tag_map)
        it == [ Idle(last, file) EXCEPT !.current = Some(cur),
                                        !.last_clipboard = Remember(cur, last),
                                        !.parsed = entry,
                                        !.events = << "read", "classify" >> ]
    IN  IF entry = Nothing THEN { Sleep(cfg, it) }
        ELSE LET body == BuildPayload(entry[1], cfg)
             IN  { LET done == [ it EXCEPT !.payload = Some(body),
                                           !.token_file = d.file,
                                           !.request = d.request,
                                           !.response = d.response,
                                           !.events = @ \o << "post" >> \o d.events ]
                   IN  IF ~d.returned THEN [ done EXCEPT !.pc = "crashed" ]
                       ELSE Sleep(cfg,
                                  [ done EXCEPT !.ok = Some(d.ok),
                                                !.events = @ \o (IF d.ok THEN << "log_sent" >>
                                                                         ELSE << >>) ]) :
                   d \in post_payload(cfg.web_app_url, body, cfg, file, exist) }

\* lines 235-260: one iteration of "while True", for one outcome of the read
Iteration(read, cfg, last, file, exist) ==
    IF read = Nothing
    THEN { Sleep(cfg, [ Idle(last, file) EXCEPT
                          !.events = << "read_failed", "log_read_error" >> ]) }
    ELSE IF ShouldProcess(read[1], last)
    THEN Process(read[1], cfg, last, file, exist)
    ELSE { Sleep(cfg, [ Idle(last, file) EXCEPT !.current = read,
                                                !.events = << "read" >> ]) }

\* the outcome of a post_payload call, from its return value and log line
OutcomeOf(it) ==
    IF it.ok = Some(TRUE) THEN "Delivered"
    ELSE IF it.ok = Nothing THEN "Raised"
    ELSE IF \E i \in DOMAIN it.events : it.events[i] = "log_auth_failure"
    THEN "AuthFailure"
    ELSE IF \E i \in DOMAIN it.events :
              it.events[i] \in { "log_server_response", "log_http_error" }
    THEN "Rejected"
    ELSE "TransportFailure"

Has(evs, e) == \E i \in DOMAIN evs : evs[i] = e

-----------------------------------------------------------------------------
(* The program *)

Init ==
    /\ pc = "start"
    /\ config = Nothing
    /\ last_clipboard = Unset
    /\ current = Nothing
    /\ parsed = Nothing
    /\ payload = Nothing
    /\ ok = Nothing
    /\ token_file \in TokenFiles
    /\ secrets_exist \in BOOLEAN
    /\ request = Nothing
    /\ response = Nothing
    /\ events = << >>
    /\ seen = Nothing
    /\ times_classified = 0
    /\ times_posted = 0
    /\ attempt_outcome = "none"
    /\ unchanged_read = FALSE
    /\ first_read = FALSE
    /\ file_before = token_file

\* main() up to "while True": load_config, fatal when it raises
Start ==
    /\ pc = "start"
    /\ \E cfg \in ConfigFiles :
         /\ config' = load_config(cfg)
         /\ pc' = IF config' = Nothing THEN "exit1" ELSE "loop"
         /\ events' = IF config' = Nothing THEN << "log_fatal" >>
                                           ELSE << "log_watching" >>
    /\ UNCHANGED << last_clipboard, current, parsed, payload, ok, token_file,
                    secrets_exist, request, response, seen, times_classified,
                    times_posted, attempt_outcome, unchanged_read, first_read, file_before >>

\* one iteration of the watch loop
Poll ==
    /\ pc = "loop"
    /\ \E read \in ReadOutcomes :
         \E it \in Iteration(read, config[1], last_clipboard, token_file, secrets_exist) :
            LET fresh == read # Nothing /\ read # seen
                classified == IF Has(it.events, "classify") THEN 1 ELSE 0
                posted == IF Has(it.events, "post") THEN 1 ELSE 0
            IN  /\ pc' = it.pc
                /\ last_clipboard' = it.last_clipboard
                /\ current' = it.current
                /\ parsed' = it.parsed
                /\ payload' = it.payload
                /\ ok' = it.ok
                /\ token_file' = it.token_file
                /\ request' = it.request
                /\ response' = it.response
                /\ events' = it.events
                /\ seen' = IF read = Nothing THEN seen ELSE read
                /\ times_classified' =
                       IF fresh THEN classified ELSE times_classified + classified
                /\ times_posted' = IF fresh THEN posted ELSE times_posted + posted
                /\ attempt_outcome' =
                       IF posted = 1 THEN OutcomeOf(it)
                       ELSE IF fresh THEN "none" ELSE attempt_outcome
                /\ unchanged_read' = (read # Nothing /\ read = last_clipboard)
                /\ first_read' = (read # Nothing /\ seen = Nothing)
    /\ file_before' = token_file
    /\ UNCHANGED << config, secrets_exist >>

\* time passes: the cached access token expires
Expire ==
    /\ pc = "loop"
    /\ token_file.state = "stored"
    /\ ~token_file.creds.expired
    /\ token_file' = [ token_file EXCEPT !.creds.expired = TRUE ]
    /\ UNCHANGED << pc, config, last_clipboard, current, parsed, payload, ok,
                    secrets_exist, request, response, events, seen,
                    times_classified, times_posted, attempt_outcome,
                    unchanged_read, first_read, file_before >>

Next == Start \/ Poll \/ Expire

Spec == Init /\ [][Next]_vars

-----------------------------------------------------------------------------
(* The classifier on its own: parse_clipboard_text applied to every text of *)
(* at most MaxLen characters, under every classifier configuration         *)

Alphabet == { "f", "u", "U", ":", " ", "\n", "-" }
Texts == UNION { [ 1..n -> Alphabet ] : n \in 0..MaxLen }

ClassifierConfigs ==
    { load_config(cfg) : cfg \in ClassifierConfigFiles } \ { Nothing }

ClassifyInit ==
    /\ pc = "classify"
    /\ config \in ClassifierConfigs
    /\ current \in { Some(t) : t \in Texts }
    /\ last_clipboard = Nothing
    /\ parsed = Nothing
    /\ payload = Nothing
    /\ ok = Nothing
    /\ token_file = Missing
    /\ secrets_exist = FALSE
    /\ request = Nothing
    /\ response = Nothing
    /\ events = << >>
    /\ seen = Nothing
    /\ times_classified = 0
    /\ times_posted = 0
    /\ attempt_outcome = "none"
    /\ unchanged_read = FALSE
    /\ first_read = FALSE
    /\ file_before = Missing

Classify ==
    /\ pc = "classify"
    /\ parsed' = parse_clipboard_text(current[1], config[1].unknown_prefix_behavior,
                                      config[1].tag_map)
    /\ pc' = "classified"
    /\ events' = << "classify" >>
    /\ UNCHANGED << config, last_clipboard, current, payload, ok, token_file,
                    secrets_exist, request, response, seen, times_classified,
                    times_posted, attempt_outcome, unchanged_read, first_read, file_before >>

SpecClassify == ClassifyInit /\ [][Classify]_vars

-----------------------------------------------------------------------------
(* Properties *)

Running == pc \in { "loop", "crashed" }
Cfg == config[1]
OAuth == Running /\ Cfg.auth_mode = S_oauth_user

\* the first non-blank line of text is "<tag>:<rest>" and the tag, lower-cased,
\* is no key of tag_map
UnknownTagLine(text, tag_map) ==
    LET match == PREFIX_RE_match(FirstNonEmptyLine(splitlines(text)))
    IN  match # Nothing /\ lower(match[1].group1) \notin DOMAIN tag_map

\* the text after the tag of the first non-blank line, stripped
RestOfLine(text) ==
    strip(PREFIX_RE_match(FirstNonEmptyLine(splitlines(text)))[1].group2)

\* the cache file is as it was when the iteration began (the token may have
\* expired since)
CacheUntouched ==
    \/ token_file = file_before
    \/ token_file = [ file_before EXCEPT !.creds.expired = TRUE ]

\* the iteration called the credential manager
TokenRequested == Has(events, "token_request")

\* C1: while the clipboard content read stays the same, it is classified at
\* most once and post_payload is called for it at most once, whether or not
\* the classification or the delivery succeeded.
C1_AtMostOncePerContent == times_classified <= 1 /\ times_posted <= 1

\* C1: a content whose classification gave no entry has been polled again.
C1_Witness ==
    /\ pc = "loop" /\ unchanged_read
    /\ times_classified = 1 /\ times_posted = 0

\* C2: once the watch loop runs, nothing that happens in an iteration ends it.
C2_LoopNeverTerminates == pc # "crashed"

C4_SendOnlyWithToken ==
    OAuth =>
      /\ request # Nothing =>
           /\ Has(events, "token_returned")
           /\ request[1].authorization # Nothing
           /\ request[1].authorization[1] # << >>
      /\ Has(events, "send") => request # Nothing
      /\ (TokenRequested /\ ~Has(events, "token_returned")) =>
           /\ request = Nothing /\ response = Nothing /\ ~Has(events, "send")
           /\ Has(events, "log_auth_failure")
           /\ ok = Some(FALSE)
           /\ attempt_outcome = "AuthFailure"

\* C4: the cached credentials are valid but hold an empty token: the token
\* request failed and nothing was sent.
C4_Witness ==
    /\ OAuth /\ Has(events, "no_access_token")
    /\ request = Nothing /\ ok = Some(FALSE)

\* C5: a token request made while the cache file holds a token that is
\* present and unexpired returns that token, with no refresh, no interactive
\* authorization and no write of the cache file.
C5_ValidCacheReused ==
    ( /\ OAuth /\ TokenRequested
      /\ file_before.state = "stored"
      /\ CredsValid(file_before.creds)
      /\ file_before.creds.token[1] # << >> )
    => /\ Has(events, "token_returned")
       /\ \A e \in { "refresh", "log_login", "interactive", "cache_write",
                     "cache_write_failed" } : ~Has(events, e)
       /\ CacheUntouched
       /\ request # Nothing => request[1].authorization = file_before.creds.token

\* C5: a request was sent with the cached token.
C5_Witness ==
    /\ OAuth /\ TokenRequested /\ file_before.state = "stored"
    /\ CredsValid(file_before.creds)
    /\ request # Nothing /\ request[1].authorization = file_before.creds.token
    /\ token_file = file_before

\* C6: an iteration that reads the content last_clipboard holds classifies
\* nothing, requests no token and calls post_payload not at all, however the
\* earlier attempt for that content ended.
C6_NoRetryWhileUnchanged ==
    unchanged_read =>
      /\ \A e \in { "classify", "token_request", "post", "send" } : ~Has(events, e)
      /\ parsed = Nothing /\ payload = Nothing /\ ok = Nothing
      /\ request = Nothing /\ response = Nothing
      /\ CacheUntouched
      /\ last_clipboard = current

\* C6: the content was read again after its delivery failed.
C6_Witness ==
    /\ pc = "loop" /\ unchanged_read
    /\ attempt_outcome \in { "Rejected", "TransportFailure", "AuthFailure" }

\* the cache file leaves the credential manager no way but the interactive
\* authorization: no cache file, or credentials that are neither valid nor
\* refreshable
NeedsInteractive(file) ==
    /\ file.state # "corrupt"
    /\ NeedsRenewal(LoadCache(file).creds)
    /\ ~CanRefresh(LoadCache(file).creds)

\* C7 as stated: with auth mode oauth_user, interactive authorization
\* required and no client-secrets file, the process stops before the watch
\* loop starts.
C7_FatalBeforeLoop ==
    ( /\ config # Nothing /\ Cfg.auth_mode = S_oauth_user
      /\ ~secrets_exist /\ NeedsInteractive(token_file) )
    => pc \notin { "loop", "crashed" }

\* C7 amended: with auth mode oauth_user, interactive authorization required
\* and no client-secrets file, the token request made for a delivery raises
\* the error naming the missing path; post_payload catches it, logs an auth
\* failure and returns False with nothing sent and no interactive step, and
\* the iteration goes on to its sleep: the error is not fatal and the loop
\* has started.
C7_MissingSecretsIsAuthFailure ==
    ( /\ OAuth /\ TokenRequested
      /\ ~secrets_exist /\ NeedsInteractive(file_before) )
    => /\ Has(events, "secrets_file_not_found")
       /\ Has(events, "log_auth_failure")
       /\ ~Has(events, "interactive") /\ ~Has(events, "log_login")
       /\ ~Has(events, "send") /\ request = Nothing
       /\ ok = Some(FALSE)
       /\ CacheUntouched
       /\ events[Len(events)] \in { "sleep", "sleep_value_error" }

\* C7: a token request failed on the missing client-secrets file and the
\* loop goes on.
C7_Witness ==
    /\ pc = "loop" /\ OAuth /\ ~secrets_exist
    /\ Has(events, "secrets_file_not_found") /\ ok = Some(FALSE)

\* C8: parse_clipboard_text returns None or an entry whose type, section and
\* text are all non-empty, for every text, tag map and unknown-prefix policy.
C8_EntryFieldsNonEmpty ==
    pc = "classified" =>
      \/ parsed = Nothing
      \/ /\ Len(parsed) = 1
         /\ parsed[1].type # << >>
         /\ parsed[1].section # << >>
         /\ parsed[1].text # << >>
         /\ strip(parsed[1].section) # << >>

\* C8: a line whose tag resolves to a blank section gave no entry.
C8_Witness ==
    /\ pc = "classified" /\ parsed = Nothing
    /\ LET match == PREFIX_RE_match(FirstNonEmptyLine(splitlines(current[1])))
       IN  /\ match # Nothing
           /\ strip(match[1].group2) # << >>
           /\ lower(match[1].group1) \in DOMAIN Cfg.tag_map
           /\ strip(Cfg.tag_map[lower(match[1].group1)]) = << >>

\* the iteration classified a text whose first non-blank line is
\* "<unknown tag>:<non-empty text>"
ClassifiedUnknownTag ==
    /\ Running /\ Has(events, "classify")
    /\ UnknownTagLine(current[1], Cfg.tag_map)
    /\ RestOfLine(current[1]) # << >>

\* C9 as stated: under map_to_misc such a text always classifies to misc with
\* the section configured for misc, and post_payload is called with type misc.
C9_UnknownAlwaysDelivered ==
    (ClassifiedUnknownTag /\ Cfg.unknown_prefix_behavior = S_map_to_misc)
    => /\ parsed # Nothing
       /\ parsed[1].type = S_misc
       /\ Has(events, "post")
       /\ payload # Nothing /\ payload[1].type = S_misc

\* C9 amended: under map_to_misc such a text classifies to misc with the
\* section configured for misc, stripped, and post_payload is called with type
\* misc, provided that section is not blank; when it is blank the text
\* classifies to None and no delivery is attempted.
C9_UnknownDeliveredUnlessBlankSection ==
    (ClassifiedUnknownTag /\ Cfg.unknown_prefix_behavior = S_map_to_misc)
    => IF strip(Cfg.tag_map[S_misc]) # << >>
       THEN /\ parsed = Some([ type |-> S_misc,
                               section |-> strip(Cfg.tag_map[S_misc]),
                               text |-> RestOfLine(current[1]) ])
            /\ Has(events, "post")
            /\ payload # Nothing /\ payload[1].type = S_misc
            /\ payload[1].section = strip(Cfg.tag_map[S_misc])
       ELSE /\ parsed = Nothing /\ payload = Nothing
            /\ ~Has(events, "post") /\ ~Has(events, "send")

\* C9: an unknown tag was posted as misc.
C9_Witness ==
    /\ ClassifiedUnknownTag /\ Cfg.unknown_prefix_behavior = S_map_to_misc
    /\ Has(events, "post") /\ payload # Nothing /\ payload[1].type = S_misc

\* C10: under ignore a text whose first non-blank line carries a tag that is
\* no key of the tag map classifies to None, and the iteration requests no
\* token and attempts no delivery.
C10_UnknownIgnored ==
    ( /\ Running /\ Has(events, "classify")
      /\ UnknownTagLine(current[1], Cfg.tag_map)
      /\ Cfg.unknown_prefix_behavior = S_ignore )
    => /\ parsed = Nothing /\ payload = Nothing /\ ok = Nothing
       /\ \A e \in { "token_request", "post", "send" } : ~Has(events, e)
       /\ request = Nothing
       /\ CacheUntouched

\* C10: an unknown tag was dropped under ignore, in auth mode oauth_user.
C10_Witness ==
    /\ OAuth /\ Has(events, "classify")
    /\ UnknownTagLine(current[1], Cfg.tag_map)
    /\ Cfg.unknown_prefix_behavior = S_ignore
    /\ parsed = Nothing /\ ~TokenRequested

\* C11: every call of post_payload is given the payload {type, section, text,
\* who} whose first three fields are those of the entry classified from the
\* clipboard value read in the same iteration and whose "who" is the
\* configured identity; the request sent, if any, carries exactly that payload
\* to the configured URL.
C11_PayloadFromThisIteration ==
    (Running /\ Has(events, "post")) =>
        /\ current # Nothing
        /\ parsed # Nothing
        /\ parsed = parse_clipboard_text(current[1], Cfg.unknown_prefix_behavior,
                                         Cfg.tag_map)
        /\ payload = Some([ type |-> parsed[1].type, section |-> parsed[1].section,
                            text |-> parsed[1].text, who |-> Cfg.who ])
        /\ request # Nothing =>
               /\ request[1].body = payload[1]
               /\ request[1].url = Cfg.web_app_url

C11_Witness ==
    /\ Running
    /\ Has(events, "post")
    /\ request # Nothing
    /\ Cfg.who # S_LB
    /\ request[1].body.who = Cfg.who
    /\ request[1].body.text = parsed[1].text

\* the line post_payload or main prints for each outcome of a delivery attempt
OutcomeLogs ==
    { "log_sent", "log_server_response", "log_http_error", "log_network_issue",
      "log_unexpected_failure", "log_auth_failure" }

\* the positions of the outcome lines in the trace of the iteration
OutcomeLogged == { i \in DOMAIN events : events[i] \in OutcomeLogs }

\* every outcome line of the iteration precedes its sleep
LoggedBeforeSleep ==
    \A i \in OutcomeLogged :
        \A j \in DOMAIN events :
            events[j] \in { "sleep", "sleep_value_error" } => i < j

\* C12: every call of post_payload the loop makes ends in exactly one of
\* Delivered, Rejected, TransportFailure and AuthFailure, and exactly one line
\* reporting that outcome is printed before the iteration sleeps.
C12_EveryAttemptHasLoggedOutcome ==
    (Running /\ Has(events, "post")) =>
        /\ attempt_outcome \in
               { "Delivered", "Rejected", "TransportFailure", "AuthFailure" }
        /\ Cardinality(OutcomeLogged) = 1
        /\ LoggedBeforeSleep

\* the token request of the iteration reached the interactive branch (lines
\* 162-171): it checked for the client-secret file
InteractiveEntered ==
    \/ Has(events, "secrets_file_not_found")
    \/ Has(events, "secrets_file_invalid")
    \/ Has(events, "log_login")

\* C13: when the cached credential is expired, has a refresh token, and the
\* refresh fails, the same token request goes on to interactive authorization
\* instead of failing.
C13_RefreshFailureFallsBackToInteractive ==
    (OAuth /\ Has(events, "refresh_failed")) => InteractiveEntered

\* C14: a missing or corrupt cache file is never used as a credential and does
\* not by itself fail the token request: in both cases the request goes on to
\* interactive authorization.
C14_MissingOrCorruptCacheReauthorizes ==
    (OAuth /\ TokenRequested /\ file_before.state \in { "missing", "corrupt" }) =>
        /\ InteractiveEntered
        /\ ~Has(events, "cache_unreadable")

\* C15: an iteration whose clipboard read fails prints the error, sleeps and
\* leaves the loop running; it classifies nothing, posts nothing, touches no
\* file, and last_clipboard is still the last value read successfully (or
\* unset), so the next successful read is compared with that value.
C15_ReadFailureSkipsIteration ==
    (Running /\ Has(events, "read_failed")) =>
        /\ events = << "read_failed", "log_read_error", "sleep" >>
        /\ pc = "loop"
        /\ last_clipboard = seen
        /\ current = Nothing /\ parsed = Nothing /\ payload = Nothing
        /\ ok = Nothing /\ request = Nothing
        /\ CacheUntouched

\* event a occurs before event b in the trace evs
Before(evs, a, b) ==
    \E i, j \in DOMAIN evs : i < j /\ evs[i] = a /\ evs[j] = b

\* the token request of the iteration obtained a credential by a refresh or
\* by the interactive flow and returned its token
RenewedTokenReturned ==
    /\ OAuth
    /\ Has(events, "token_returned")
    /\ Has(events, "refresh") \/ Has(events, "interactive")

\* C16: when get_oauth_access_token returns a token it obtained by a
\* successful refresh or interactive authorization, the cache file was
\* written before the return, after the credential was obtained, and holds
\* the credential whose token is returned (and sent).
C16_CacheWrittenBeforeTokenReturned ==
    RenewedTokenReturned =>
        /\ Before(events, "cache_write", "token_returned")
        /\ ~Before(events, "cache_write", "refresh")
        /\ ~Before(events, "cache_write", "interactive")
        /\ ~Has(events, "cache_write_failed")
        /\ token_file.state = "stored"
        /\ token_file.creds.token # Nothing
        /\ request # Nothing => request[1].authorization = token_file.creds.token

C16_Witness ==
    /\ RenewedTokenReturned
    /\ Has(events, "refresh")
    /\ file_before.state = "stored" /\ file_before.creds.expired
    /\ token_file.state = "stored" /\ ~token_file.creds.expired
    /\ request # Nothing
    /\ request[1].authorization = token_file.creds.token

\* C17: last_clipboard starts as None, which equals no value the clipboard can
\* hold, the empty string included, and stays so until a read succeeds; the
\* first value read successfully is therefore processed whatever it is: it
\* becomes last_clipboard and is classified.
C17_FirstReadAlwaysProcessed ==
    /\ (pc = "start" \/ (Running /\ seen = Nothing)) =>
           \A t \in ClipboardTexts : last_clipboard # Some(t)
    /\ (Running /\ first_read) =>
           /\ current # Nothing
           /\ ~unchanged_read
           /\ last_clipboard = current
           /\ Has(events, "classify")
           /\ parsed = parse_clipboard_text(current[1], Cfg.unknown_prefix_behavior,
                                            Cfg.tag_map)

C17_Witness ==
    /\ Running
    /\ first_read
    /\ current = Some(<< >>)
    /\ last_clipboard = Some(<< >>)
    /\ Has(events, "classify")

\* C18: every configuration load_config returns has a poll interval greater
\* than zero, so no sleep of the loop is given a zero or negative length.
C18_PollIntervalPositive ==
    /\ config # Nothing => config[1].poll_interval > 0
    /\ ~Has(events, "sleep_value_error")

\* the token request of the iteration failed at the refresh, at the
\* client-secret file or in the interactive flow
RenewalFailed ==
    \/ Has(events, "refresh_failed")
    \/ Has(events, "secrets_file_not_found")
    \/ Has(events, "secrets_file_invalid")
    \/ Has(events, "interactive_failed")

\* C19: a token request that fails at the refresh, at the interactive flow or
\* for want of the client-secret file leaves the cache file as it was; the
\* file is written only after a refresh or an interactive flow has succeeded,
\* and is never removed.
C19_FailedRenewalLeavesCache ==
    /\ (OAuth /\ RenewalFailed) =>
           /\ CacheUntouched
           /\ ~Has(events, "cache_write")
           /\ ~Has(events, "cache_write_failed")
           /\ ~Has(events, "token_returned")
    /\ (Running /\ (Has(events, "cache_write") \/ Has(events, "cache_write_failed"))) =>
           /\ ~RenewalFailed
           /\ \/ Before(events, "refresh", "cache_write")
              \/ Before(events, "interactive", "cache_write")
              \/ Before(events, "refresh", "cache_write_failed")
              \/ Before(events, "interactive", "cache_write_failed")
    /\ (Running /\ token_file.state = "missing") => file_before.state = "missing"

C19_Witness ==
    /\ OAuth
    /\ Has(events, "refresh_failed")
    /\ file_before.state = "stored"
    /\ file_before.creds.expired
    /\ token_file = file_before
    /\ ok = Some(FALSE)

\* what get_oauth_access_token and the handler of its failure leave in the
\* trace of an iteration
CredentialEvents ==
    { "token_request", "cache_read", "cache_unreadable", "refresh",
      "refresh_failed", "secrets_file_not_found", "secrets_file_invalid",
      "log_login", "interactive", "interactive_failed", "cache_write",
      "cache_write_failed", "token_returned", "no_access_token",
      "log_auth_failure" }

\* C20: with auth_mode "none" no iteration calls get_oauth_access_token: the
\* token file is neither read nor written, nothing is refreshed or authorized
\* interactively, no attempt ends as an auth failure, and every request sent
\* has no Authorization header.
C20_NoAuthNeverTouchesCredentials ==
    (Running /\ Cfg.auth_mode = S_none) =>
        /\ \A i \in DOMAIN events : events[i] \notin CredentialEvents
        /\ CacheUntouched
        /\ attempt_outcome # "AuthFailure"
        /\ request # Nothing => request[1].authorization = Nothing

C20_Witness ==
    /\ Running
    /\ Cfg.auth_mode = S_none
    /\ Has(events, "send")
    /\ request # Nothing
    /\ request[1].authorization = Nothing
    /\ ok = Some(TRUE)
====
